---- MODULE Spec2Model ----
(***************************************************************************)
(* Model of the AATE configuration module (src/configsettings.py) and of   *)
(* the logger that consumes it (src/utilslogger.py).                       *)
(*                                                                         *)
(* Strings that the code inspects character by character (environment      *)
(* keys, raw values, log level names) are tuples of ASCII codes, so that   *)
(* str.lower(), str.upper() and float() are computed, not assumed.         *)
(* Floats are exact decimal fractions [num, den] with den a power of ten.  *)
(***************************************************************************)
EXTENDS Integers, Sequences, FiniteSets, TLC

VARIABLES env, file, pc, settings, heap, table, first, atStartup, last, mutations

vars == <<env, file, pc, settings, heap, table, first, atStartup, last, mutations>>

(* ------------------------------- bounds -------------------------------- *)

\* Largest number of variables in the process environment.
MaxEnv == 2
\* Largest number of assignments in the .env file.
MaxFile == 1
\* Largest number of caller mutations after startup.
MaxMutations == 1

(* --------------------------- string helpers ---------------------------- *)

\* Python's None, and an unbound name.
None == [none |-> TRUE]

\* str.lower() on ASCII: 'A'..'Z' (65..90) map to 'a'..'z'.
Lower(s) == [i \in DOMAIN s |-> IF s[i] \in 65..90 THEN s[i] + 32 ELSE s[i]]

\* str.upper() on ASCII: 'a'..'z' (97..122) map to 'A'..'Z'.
Upper(s) == [i \in DOMAIN s |-> IF s[i] \in 97..122 THEN s[i] - 32 ELSE s[i]]

Range(s) == {s[i] : i \in DOMAIN s}

s_empty == <<>>
s_backtest == <<98, 97, 99, 107, 116, 101, 115, 116>>
s_paper == <<112, 97, 112, 101, 114>>
s_live == <<108, 105, 118, 101>>
s_LIVE == <<76, 73, 86, 69>>
s_turbo == <<116, 117, 114, 98, 111>>
s_INFO == <<73, 78, 70, 79>>
s_debug == <<100, 101, 98, 117, 103>>
s_verbose == <<118, 101, 114, 98, 111, 115, 101>>
s_DEBUG == <<68, 69, 66, 85, 71>>
s_WARNING == <<87, 65, 82, 78, 73, 78, 71>>
s_WARN == <<87, 65, 82, 78>>
s_ERROR == <<69, 82, 82, 79, 82>>
s_CRITICAL == <<67, 82, 73, 84, 73, 67, 65, 76>>
s_FATAL == <<70, 65, 84, 65, 76>>
s_NOTSET == <<78, 79, 84, 83, 69, 84>>
s_0 == <<48>>
s_1 == <<49>>
s_1_5 == <<49, 46, 53>>
s_abc == <<97, 98, 99>>
s_aate == <<97, 97, 116, 101>>
s_key_json == <<107, 101, 121, 46, 106, 115, 111, 110>>

(* ------------------------------ the schema ------------------------------ *)

\* class TradingMode(str, Enum): the values of its members.
TradingMode == {s_backtest, s_paper, s_live}

\* The fields of Settings that carry a validator, a required marker or are
\* read by the logger, in declaration order.  The remaining fields are plain
\* str / int / float fields with defaults and behave like LOG_LEVEL.
Fields == <<"TRADING_MODE", "LOG_LEVEL", "FIREBASE_PROJECT_ID",
            "FIREBASE_CREDENTIALS_PATH", "DEFAULT_SYMBOLS", "MAX_POSITION_SIZE">>

FieldSet == Range(Fields)

\* The Python name of each field, as characters.
FieldName ==
  [ TRADING_MODE |-> <<84, 82, 65, 68, 73, 78, 71, 95, 77, 79, 68, 69>>,
    LOG_LEVEL |-> <<76, 79, 71, 95, 76, 69, 86, 69, 76>>,
    FIREBASE_PROJECT_ID |-> <<70, 73, 82, 69, 66, 65, 83, 69, 95, 80, 82, 79,
                              74, 69, 67, 84, 95, 73, 68>>,
    FIREBASE_CREDENTIALS_PATH |-> <<70, 73, 82, 69, 66, 65, 83, 69, 95, 67, 82,
                                    69, 68, 69, 78, 84, 73, 65, 76, 83, 95, 80,
                                    65, 84, 72>>,
    DEFAULT_SYMBOLS |-> <<68, 69, 70, 65, 85, 76, 84, 95, 83, 89, 77, 66, 79,
                          76, 83>>,
    MAX_POSITION_SIZE |-> <<77, 65, 88, 95, 80, 79, 83, 73, 84, 73, 79, 78, 95,
                            83, 73, 90, 69>> ]

\* Field(...): the fields without a default.
Required == {"FIREBASE_PROJECT_ID", "FIREBASE_CREDENTIALS_PATH"}

\* A float as an exact fraction.
Flt(n, d) == [num |-> n, den |-> d]

\* The declared defaults of the scalar fields (DEFAULT_SYMBOLS, a list, lives
\* in the heap: see InitialHeap).
Default ==
  [ TRADING_MODE |-> s_paper,
    LOG_LEVEL |-> s_INFO,
    MAX_POSITION_SIZE |-> Flt(1, 10) ]

\* class Config: case_sensitive = False, so the names looked up in the
\* environment are the field names lower-cased.
EnvNames == [f \in DOMAIN FieldName |-> Lower(FieldName[f])]

EnvName(f) == EnvNames[f]

(* ----------------------------- float parsing ---------------------------- *)

IsDigit(c) == c \in 48..57

RECURSIVE DigitsToNat(_)
DigitsToNat(ds) ==
  IF ds = <<>> THEN 0
  ELSE 10 * DigitsToNat(SubSeq(ds, 1, Len(ds) - 1)) + (ds[Len(ds)] - 48)

RECURSIVE Pow10(_)
Pow10(k) == IF k = 0 THEN 1 ELSE 10 * Pow10(k - 1)

\* float(s) for the decimal notation [sign] digits [. digits] with at least
\* one digit; every other string of the model's inputs raises ValueError.
ParseFloat(s) ==
  LET signed == Len(s) > 0 /\ s[1] \in {43, 45}
      body == IF signed THEN SubSeq(s, 2, Len(s)) ELSE s
      dots == {i \in DOMAIN body : body[i] = 46}
      digits == SelectSeq(body, IsDigit)
      wellFormed == /\ \A i \in DOMAIN body : IsDigit(body[i]) \/ body[i] = 46
                    /\ Cardinality(dots) <= 1
                    /\ Len(digits) >= 1
      fracLen == IF dots = {} THEN 0
                 ELSE Len(body) - (CHOOSE i \in dots : TRUE)
      magnitude == DigitsToNat(digits)
  IN IF ~wellFormed THEN [ok |-> FALSE]
     ELSE [ok |-> TRUE,
           val |-> Flt(IF signed /\ s[1] = 45 THEN 0 - magnitude ELSE magnitude,
                       Pow10(fracLen))]

(* ------------------------------ validators ------------------------------ *)

Ok(v) == [ok |-> TRUE, val |-> v]
Err(kind) == [ok |-> FALSE, kind |-> kind]

\* @validator("TRADING_MODE", pre=True) followed by the enum conversion:
\* the input is always a str here (a raw string or the str-valued default
\* member), it is lower-cased and must name a member.
validate_trading_mode_nolower(v) ==
  IF v \notin {s_backtest, s_paper, s_live} THEN Err("enum") ELSE Ok(v)

validate_trading_mode(v) ==
  LET lowered == Lower(v)
  IN IF lowered \notin {s_backtest, s_paper, s_live}
     THEN Err("enum")
     ELSE Ok(lowered)

\* @validator("MAX_POSITION_SIZE"): 0 < v <= 1 on the coerced float.
validate_position_size_inclusive(v) ==
  IF ~(0 <= v.num /\ v.num <= v.den) THEN Err("range") ELSE Ok(v)

validate_position_size(v) ==
  IF ~(0 < v.num /\ v.num <= v.den) THEN Err("range") ELSE Ok(v)

\* The float coercion that precedes validate_position_size: a raw string is
\* parsed, the float default is taken as it is; a coercion failure ends the
\* field's validator chain.
ValidateFloatField(raw, isDefault) ==
  IF isDefault THEN validate_position_size(raw)
  ELSE LET p == ParseFloat(raw)
       IN IF p.ok THEN validate_position_size(p.val) ELSE Err("float")

(* ---------------------- resolution of the raw input --------------------- *)

\* {k.lower(): v for k, v in ...items()}: a dict built from a list of
\* assignments in order, so a later entry replaces an earlier one whose key
\* differs only in case.
LowerDict(entries) ==
  LET keys == {Lower(entries[i].key) : i \in DOMAIN entries}
      lastOf(k) == CHOOSE i \in DOMAIN entries :
                     /\ Lower(entries[i].key) = k
                     /\ \A j \in DOMAIN entries :
                          Lower(entries[j].key) = k => j <= i
  IN [k \in keys |-> entries[lastOf(k)].val]

\* A merge in which an empty environment value does not count as set.
MergedIgnoringEmpty(e, fl) ==
  LET ed == LowerDict(e)
      fd == LowerDict(fl)
      set(k) == k \in DOMAIN ed /\ ed[k] # <<>>
  IN [k \in {x \in DOMAIN ed : set(x)} \cup DOMAIN fd |->
        IF set(k) THEN ed[k] ELSE fd[k]]

\* {**read_env_file(...), **env_vars}: the environment wins over the file
\* whenever it holds the key, whatever the value.
Merged(e, fl) ==
  LET ed == LowerDict(e)
      fd == LowerDict(fl)
  IN [k \in DOMAIN ed \cup DOMAIN fd |-> IF k \in DOMAIN ed THEN ed[k] ELSE fd[k]]

\* The scalar fields, whose raw input is a plain string.  DEFAULT_SYMBOLS is
\* a list: the inputs of the model never set it, it always comes from its
\* default.
ScalarFields == FieldSet \ {"DEFAULT_SYMBOLS"}

\* EnvSettingsSource: the raw value of every field the merged input sets.
EnvSource(e, fl) ==
  LET m == Merged(e, fl)
      present == {f \in ScalarFields : EnvName(f) \in DOMAIN m}
  IN [f \in present |-> m[EnvName(f)]]

(* ------------------------------ validation ------------------------------ *)

\* One field of validate_model: a missing required field is an error; a
\* missing optional field takes its default, which is validated too
\* (BaseSettings sets validate_all); otherwise the raw string is coerced
\* and validated.
ValidateField(f, d) ==
  IF f \notin DOMAIN d
  THEN IF f \in Required THEN Err("missing")
       ELSE IF f = "TRADING_MODE" THEN validate_trading_mode(Default[f])
       ELSE IF f = "MAX_POSITION_SIZE" THEN ValidateFloatField(Default[f], TRUE)
       ELSE Ok(Default[f])
  ELSE IF f = "TRADING_MODE" THEN validate_trading_mode(d[f])
  ELSE IF f = "MAX_POSITION_SIZE" THEN ValidateFloatField(d[f], FALSE)
  ELSE Ok(d[f])

RECURSIVE CollectErrors(_, _)
CollectErrors(d, i) ==
  IF i > Len(Fields) THEN <<>>
  ELSE LET f == Fields[i]
           r == IF f \in ScalarFields THEN ValidateField(f, d) ELSE Ok(None)
       IN (IF r.ok THEN <<>> ELSE <<[loc |-> f, kind |-> r.kind]>>)
            \o CollectErrors(d, i + 1)

\* A loader that stops at the first failing field.
validate_model_first_error_only(d) ==
  LET all == CollectErrors(d, 1)
  IN IF all = <<>> THEN <<>> ELSE <<all[1]>>

\* validate_model: every field is validated, in declaration order, and every
\* failure is kept; the ValidationError raised carries the whole list.
validate_model(d) == CollectErrors(d, 1)

\* Settings(): the outcome of one construction.  raw is the resolved raw
\* input; on success values holds every field, DEFAULT_SYMBOLS by content.
Load(e, fl, h) ==
  LET d == EnvSource(e, fl)
      errors == validate_model(d)
  IN IF errors # <<>>
     THEN [ok |-> FALSE, raw |-> d, errors |-> errors]
     ELSE [ok |-> TRUE, raw |-> d, errors |-> <<>>,
           values |-> [f \in FieldSet |->
                         IF f = "DEFAULT_SYMBOLS" THEN h[1]
                         ELSE ValidateField(f, d).val]]

(* ------------------------- objects and the heap ------------------------- *)

\* heap is the list of list objects; heap[1] is the list written as the
\* default of DEFAULT_SYMBOLS in the class body, shared by every load.
InitialHeap == << <<"BTC/USDT", "ETH/USDT", "SOL/USDT">> >>

\* A default handed to an instance without a copy.
get_default_shared(h) == [heap |-> h, ref |-> 1]

\* field.get_default(): the instance receives its own copy of the default.
get_default(h) == [heap |-> Append(h, h[1]), ref |-> Len(h) + 1]

\* The settings object as its field values (lists by content).
Snapshot(s, h) ==
  [f \in DOMAIN s |-> IF f = "DEFAULT_SYMBOLS" THEN h[s[f]] ELSE s[f]]

\* @dataclass ExchangeConfig with its field defaults.
ExchangeConfig(name, rate_limit, sandbox) ==
  [name |-> name, api_key |-> None, api_secret |-> None,
   rate_limit |-> rate_limit, sandbox |-> sandbox]

\* The EXCHANGE_CONFIGS dict literal.
EXCHANGE_CONFIGS ==
  [k \in {"binance", "coinbase"} |->
     IF k = "binance" THEN ExchangeConfig("binance", 10, TRUE)
     ELSE ExchangeConfig("coinbase", 5, TRUE)]

\* The outcome of a lookup that raises KeyError.
ProfileNotFound == [error |-> "KeyError"]

\* A lookup that answers an unknown key with a fresh default profile.
LookupWithDefault(t, id) ==
  IF id \in DOMAIN t THEN t[id] ELSE ExchangeConfig(id, 10, TRUE)

\* EXCHANGE_CONFIGS[id] on a plain dict.
Lookup(t, id) == IF id \in DOMAIN t THEN t[id] ELSE ProfileNotFound

(* -------------------------------- logger -------------------------------- *)

\* The upper-case level names of the logging module and their values.
LoggingLevels ==
  (s_DEBUG :> 10) @@ (s_INFO :> 20) @@ (s_WARNING :> 30) @@ (s_WARN :> 30)
  @@ (s_ERROR :> 40) @@ (s_CRITICAL :> 50) @@ (s_FATAL :> 50) @@ (s_NOTSET :> 0)

\* class LogLevel: the standard levels.
LogLevel == {s_DEBUG, s_INFO, s_WARNING, s_ERROR, s_CRITICAL}

\* StructuredLogger.__init__: getattr(logging, level.upper()) raises
\* AttributeError for a name the logging module does not define.
StructuredLoggerInit(level) ==
  LET name == Upper(level)
  IN IF name \in DOMAIN LoggingLevels
     THEN [ok |-> TRUE, name |-> name, level |-> LoggingLevels[name]]
     ELSE [ok |-> FALSE, name |-> name, error |-> "AttributeError"]

(* ------------------------------- inputs --------------------------------- *)

\* The spellings under which the inputs name a field: its declared name and,
\* for TRADING_MODE, the all-lower-case spelling as well.
Spellings(f) ==
  IF f = "TRADING_MODE" THEN {FieldName[f], Lower(FieldName[f])}
  ELSE {FieldName[f]}

\* The raw strings the inputs give a field.
RawValues(f) ==
  IF f = "TRADING_MODE" THEN {s_LIVE, s_turbo, s_empty}
  ELSE IF f = "LOG_LEVEL" THEN {s_debug, s_verbose}
  ELSE IF f = "FIREBASE_PROJECT_ID" THEN {s_aate, s_empty}
  ELSE IF f = "FIREBASE_CREDENTIALS_PATH" THEN {s_key_json, s_empty}
  ELSE {s_0, s_1, s_1_5, s_abc}

Assignments ==
  UNION {{[key |-> k, val |-> v] : k \in Spellings(f), v \in RawValues(f)} :
           f \in ScalarFields}

\* The assignments of the runs that only load: every field with every raw
\* value, TRADING_MODE under both spellings, one log level.
LoadAssignments ==
  {a \in Assignments :
     /\ a.key = FieldName["LOG_LEVEL"] => a.val = s_verbose
     /\ a.key = Lower(FieldName["TRADING_MODE"]) => a.val # s_turbo}

\* The assignments of the runs that follow the process after startup: the two
\* required fields, a log level and one invalid position size.
RunAssignments ==
  {a \in Assignments :
     \/ a.key = FieldName["FIREBASE_PROJECT_ID"] /\ a.val = s_aate
     \/ a.key = FieldName["FIREBASE_CREDENTIALS_PATH"] /\ a.val = s_key_json
     \/ a.key = FieldName["LOG_LEVEL"]
     \/ a.key = FieldName["MAX_POSITION_SIZE"] /\ a.val = s_1_5}

\* The position in the declaration order of the field an assignment names.
FieldIndex(a) == CHOOSE i \in DOMAIN Fields : EnvName(Fields[i]) = Lower(a.key)

\* Lists of at most n assignments from U, no key written twice.  Both inputs
\* are read into dicts, so only the order of two keys that differ in case
\* alone matters: the lists are taken in field order, keys of one field in
\* either order.
AssignmentLists(U, n) ==
  UNION {{s \in [1..k -> U] :
            \A i, j \in 1..k :
              i < j => /\ s[i].key # s[j].key
                       /\ FieldIndex(s[i]) <= FieldIndex(s[j])} : k \in 0..n}

(* ------------------------------- the state ------------------------------ *)

\* env: os.environ when the process starts, in its order.
\* file: the assignments of the .env file (empty when there is no file).
\* pc: "start", then "ready" once the import of the settings module has
\*     succeeded, or "aborted" once it has raised.
\* settings: the module-level settings object (None while unbound); its
\*     DEFAULT_SYMBOLS field holds a reference into heap.
\* table: the module-level EXCHANGE_CONFIGS dict (None while unbound).
\* first: the outcome of the Settings() call made by the import.
\* atStartup: the field values and the table as the import left them.
\* last: the result of the latest read-only operation of a consumer.
\* mutations: how many mutating operations callers have made.
Rest ==
  /\ pc = "start"
  /\ settings = None
  /\ heap = InitialHeap
  /\ table = None
  /\ first = None
  /\ atStartup = None
  /\ last = None
  /\ mutations = 0

Init ==
  /\ env \in AssignmentLists(RunAssignments, MaxEnv)
  /\ file \in AssignmentLists(RunAssignments, MaxFile)
  /\ Rest

\* The loads alone, over every input.
InitLoad ==
  /\ env \in AssignmentLists(LoadAssignments, MaxEnv)
  /\ file \in AssignmentLists(LoadAssignments, MaxFile)
  /\ Rest

\* An import that binds whatever validated even when the load failed.
Bind_partial(res, d, ref) ==
  [f \in {x \in FieldSet : x = "DEFAULT_SYMBOLS" \/ ValidateField(x, d).ok} |->
     IF f = "DEFAULT_SYMBOLS" THEN ref ELSE ValidateField(f, d).val]

\* settings = Settings(): the name is bound only when the call returns.
Bind(res, d, ref) ==
  IF res.ok
  THEN [f \in FieldSet |-> IF f = "DEFAULT_SYMBOLS" THEN ref ELSE res.values[f]]
  ELSE None

\* The import of the settings module: Settings() is called and, unless it
\* raises, the result is bound and the exchange table is built.
Startup ==
  /\ pc = "start"
  /\ LET res == Load(env, file, heap)
         alloc == get_default(heap)
         bound == Bind(res, res.raw, alloc.ref)
     IN /\ first' = res
        /\ settings' = bound
        /\ IF bound # None
           THEN /\ pc' = "ready"
                /\ heap' = alloc.heap
                /\ table' = EXCHANGE_CONFIGS
                /\ atStartup' = [settings |-> Snapshot(bound, alloc.heap),
                                 table |-> EXCHANGE_CONFIGS]
           ELSE /\ pc' = "aborted"
                /\ UNCHANGED <<heap, table, atStartup>>
  /\ UNCHANGED <<env, file, last, mutations>>

\* After a failed import a caller imports the module again: the module body
\* runs again from its first line, so Settings() is called once more.
RetryImport ==
  /\ pc = "aborted"
  /\ LET res == Load(env, file, heap)
         alloc == get_default(heap)
         bound == Bind(res, res.raw, alloc.ref)
     IN /\ last' = [op |-> "load", result |-> res]
        /\ settings' = bound
        /\ IF bound # None
           THEN /\ pc' = "ready"
                /\ heap' = alloc.heap
                /\ table' = EXCHANGE_CONFIGS
                /\ atStartup' = [settings |-> Snapshot(bound, alloc.heap),
                                 table |-> EXCHANGE_CONFIGS]
           ELSE UNCHANGED <<pc, heap, table, atStartup>>
  /\ UNCHANGED <<env, file, first, mutations>>

(* ------------------------- read-only operations ------------------------- *)

\* A consumer reads one field of the imported settings object.
ReadSetting(f) ==
  /\ pc = "ready"
  /\ f \in DOMAIN settings
  /\ last' = [op |-> "read", field |-> f, value |-> Snapshot(settings, heap)[f]]
  /\ UNCHANGED <<env, file, pc, settings, heap, table, first, atStartup, mutations>>

\* A caller looks an exchange identifier up in the table.
GetProfile(id) ==
  /\ pc = "ready"
  /\ last' = [op |-> "lookup", id |-> id, result |-> Lookup(table, id)]
  /\ UNCHANGED <<env, file, pc, settings, heap, table, first, atStartup, mutations>>

\* The logging component builds StructuredLogger(name, settings.LOG_LEVEL).
NewLogger ==
  /\ pc = "ready"
  /\ "LOG_LEVEL" \in DOMAIN settings
  /\ last' = [op |-> "logger", given |-> settings.LOG_LEVEL,
              result |-> StructuredLoggerInit(settings.LOG_LEVEL)]
  /\ UNCHANGED <<env, file, pc, settings, heap, table, first, atStartup, mutations>>

\* A caller constructs Settings() once more; the object is not kept.
Reload ==
  /\ pc = "ready"
  /\ last' = [op |-> "load", result |-> Load(env, file, heap)]
  /\ UNCHANGED <<env, file, pc, settings, heap, table, first, atStartup, mutations>>

(* -------------------------- mutating operations ------------------------- *)

\* The values callers assign in the model.
AssignedValue(f) ==
  IF f = "TRADING_MODE" THEN s_turbo
  ELSE IF f = "MAX_POSITION_SIZE" THEN Flt(5, 1)
  ELSE IF f = "LOG_LEVEL" THEN s_verbose
  ELSE s_empty

\* settings.<f> = v.  The model class keeps allow_mutation at its default
\* and does not validate assignments, so the value is stored as given.
SetAttr(f) ==
  /\ pc = "ready"
  /\ mutations < MaxMutations
  /\ f \in DOMAIN settings \cap ScalarFields
  /\ settings' = [settings EXCEPT ![f] = AssignedValue(f)]
  /\ mutations' = mutations + 1
  /\ UNCHANGED <<env, file, pc, heap, table, first, atStartup, last>>

\* settings.DEFAULT_SYMBOLS.append(sym): the list object is changed in place.
AppendSymbol ==
  /\ pc = "ready"
  /\ mutations < MaxMutations
  /\ heap' = [heap EXCEPT ![settings.DEFAULT_SYMBOLS] = Append(@, "DOGE/USDT")]
  /\ mutations' = mutations + 1
  /\ UNCHANGED <<env, file, pc, settings, table, first, atStartup, last>>

\* EXCHANGE_CONFIGS[id] = ExchangeConfig(name=id, sandbox=False).
TableAssign(id) ==
  /\ pc = "ready"
  /\ mutations < MaxMutations
  /\ table' = [k \in DOMAIN table \cup {id} |->
                 IF k = id THEN ExchangeConfig(id, 10, FALSE) ELSE table[k]]
  /\ mutations' = mutations + 1
  /\ UNCHANGED <<env, file, pc, settings, heap, first, atStartup, last>>

\* del EXCHANGE_CONFIGS[id].
TableDelete(id) ==
  /\ pc = "ready"
  /\ mutations < MaxMutations
  /\ id \in DOMAIN table
  /\ table' = [k \in DOMAIN table \ {id} |-> table[k]]
  /\ mutations' = mutations + 1
  /\ UNCHANGED <<env, file, pc, settings, heap, first, atStartup, last>>

\* EXCHANGE_CONFIGS[id].sandbox = False / .rate_limit = 1000: the dataclass
\* is not frozen.
ProfileSetAttr(id, attr) ==
  /\ pc = "ready"
  /\ mutations < MaxMutations
  /\ id \in DOMAIN table
  /\ table' = [table EXCEPT ![id] =
                 IF attr = "sandbox" THEN [@ EXCEPT !.sandbox = FALSE]
                 ELSE [@ EXCEPT !.rate_limit = 1000]]
  /\ mutations' = mutations + 1
  /\ UNCHANGED <<env, file, pc, settings, heap, first, atStartup, last>>

ExchangeIds == {"binance", "coinbase", "kraken"}

Next ==
  \/ Startup
  \/ RetryImport
  \/ \E f \in FieldSet : ReadSetting(f)
  \/ \E id \in ExchangeIds : GetProfile(id)
  \/ NewLogger
  \/ Reload
  \/ \E f \in FieldSet : SetAttr(f)
  \/ AppendSymbol
  \/ \E id \in ExchangeIds : TableAssign(id)
  \/ \E id \in ExchangeIds : TableDelete(id)
  \/ \E id \in ExchangeIds, attr \in {"sandbox", "rate_limit"} : ProfileSetAttr(id, attr)

Spec == Init /\ [][Next]_vars

NextLoad == Startup \/ RetryImport \/ Reload

SpecLoad == InitLoad /\ [][NextLoad]_vars

(* ------------------------------ properties ------------------------------ *)

Loaded == first # None

LastIs(o) == last # None /\ last.op = o

ErrorAt(res, f, kind) ==
  \E i \in DOMAIN res.errors : res.errors[i] = [loc |-> f, kind |-> kind]

NoErrorAt(res, f) == \A i \in DOMAIN res.errors : res.errors[i].loc # f

InRange01(v) == 0 < v.num /\ v.num <= v.den

\* C1: every successful load has 0 < MAX_POSITION_SIZE <= 1; a supplied or
\* default value v passes the field iff 0 < v <= 1 and otherwise the load
\* fails with a range error at the field; 0 fails, 1 passes, 1.5 fails and
\* the default 0.1 passes.
C1_PositionSizeInRange ==
  Loaded =>
    LET supplied == "MAX_POSITION_SIZE" \in DOMAIN first.raw
        raw == IF supplied THEN first.raw["MAX_POSITION_SIZE"] ELSE None
        p == IF supplied THEN ParseFloat(raw) ELSE Ok(Flt(1, 10))
        rangeErr == ErrorAt(first, "MAX_POSITION_SIZE", "range")
    IN /\ first.ok => p.ok /\ InRange01(first.values["MAX_POSITION_SIZE"])
       /\ first.ok => first.values["MAX_POSITION_SIZE"] = p.val
       /\ p.ok /\ ~InRange01(p.val) => ~first.ok /\ rangeErr
       /\ p.ok /\ InRange01(p.val) => NoErrorAt(first, "MAX_POSITION_SIZE")
       /\ supplied /\ raw = s_0 => ~first.ok /\ rangeErr
       /\ supplied /\ raw = s_1 => NoErrorAt(first, "MAX_POSITION_SIZE")
       /\ supplied /\ raw = s_1_5 => ~first.ok /\ rangeErr
       /\ ~supplied => NoErrorAt(first, "MAX_POSITION_SIZE")

\* A load succeeded with MAX_POSITION_SIZE given as "1", the upper bound.
C1_Witness ==
  /\ Loaded /\ first.ok
  /\ "MAX_POSITION_SIZE" \in DOMAIN first.raw
  /\ first.raw["MAX_POSITION_SIZE"] = s_1
  /\ first.values["MAX_POSITION_SIZE"] = Flt(1, 1)

\* C2: a raw TRADING_MODE s is lower-cased before the check: if lower(s) is
\* backtest, paper or live the field passes and a successful snapshot holds
\* lower(s) ("LIVE" gives live); otherwise the load fails with an enum error
\* ("turbo" fails); no successful snapshot holds any other mode.
C2_TradingModeNormalized ==
  Loaded =>
    LET supplied == "TRADING_MODE" \in DOMAIN first.raw
        raw == IF supplied THEN first.raw["TRADING_MODE"] ELSE None
        modes == {s_backtest, s_paper, s_live}
    IN /\ first.ok => first.values["TRADING_MODE"] \in modes
       /\ supplied /\ Lower(raw) \in modes =>
            /\ NoErrorAt(first, "TRADING_MODE")
            /\ first.ok => first.values["TRADING_MODE"] = Lower(raw)
       /\ supplied /\ Lower(raw) \notin modes =>
            ~first.ok /\ ErrorAt(first, "TRADING_MODE", "enum")
       /\ supplied /\ raw = s_LIVE =>
            /\ NoErrorAt(first, "TRADING_MODE")
            /\ first.ok => first.values["TRADING_MODE"] = s_live
       /\ supplied /\ raw = s_turbo =>
            ~first.ok /\ ErrorAt(first, "TRADING_MODE", "enum")

\* A load succeeded with TRADING_MODE given as "LIVE" and holds live.
C2_Witness ==
  /\ Loaded /\ first.ok
  /\ "TRADING_MODE" \in DOMAIN first.raw
  /\ first.raw["TRADING_MODE"] = s_LIVE
  /\ first.values["TRADING_MODE"] = s_live

\* C3: a load fails with a missing-field error whenever FIREBASE_PROJECT_ID
\* or FIREBASE_CREDENTIALS_PATH is absent or empty after resolution, so every
\* successful snapshot has both present and non-empty.
C3_RequiredNonEmpty ==
  Loaded =>
    /\ \A f \in Required :
         (f \notin DOMAIN first.raw \/ first.raw[f] = s_empty) => ~first.ok
    /\ first.ok => \A f \in Required : first.values[f] # s_empty

\* The part of C3 the code keeps: an absent required field fails the load.
C3_AbsentRequiredFails ==
  Loaded =>
    \A f \in Required :
      f \notin DOMAIN first.raw => ~first.ok /\ ErrorAt(first, f, "missing")

\* The resolution C4 describes, in which an empty environment value does not
\* count.
EnvSourceIgnoringEmpty(e, fl) ==
  LET m == MergedIgnoringEmpty(e, fl)
      present == {f \in ScalarFields : EnvName(f) \in DOMAIN m}
  IN [f \in present |-> m[EnvName(f)]]

\* C4 as stated: the resolved value of every field is the environment
\* variable's value if it is present and non-empty, otherwise the file's
\* value if the file sets the field, otherwise the default.
C4_Original == Loaded => first.raw = EnvSourceIgnoringEmpty(env, file)

Hits(entries, f) ==
  {i \in DOMAIN entries : Lower(entries[i].key) = EnvName(f)}

LastHit(entries, f) ==
  CHOOSE i \in Hits(entries, f) : \A j \in Hits(entries, f) : j <= i

\* C4 (amended): for every field the resolved value is the value of the
\* environment variable whose name matches the field's case-insensitively
\* (the last one in environment order if several differ only in case) if
\* there is one, even when that value is empty; otherwise the file's value
\* if the file sets the field; otherwise the declared default.
C4_Precedence ==
  Loaded =>
    \A f \in ScalarFields :
      IF Hits(env, f) # {}
      THEN f \in DOMAIN first.raw /\ first.raw[f] = env[LastHit(env, f)].val
      ELSE IF Hits(file, f) # {}
      THEN f \in DOMAIN first.raw /\ first.raw[f] = file[LastHit(file, f)].val
      ELSE /\ f \notin DOMAIN first.raw
           /\ first.ok /\ f \notin Required => first.values[f] = Default[f]

\* The environment names trading_mode in lower case with an empty value, the
\* file sets TRADING_MODE=LIVE, and the load resolved the empty value.
C4_Witness ==
  /\ Loaded
  /\ \E i \in DOMAIN env :
       env[i] = [key |-> Lower(FieldName["TRADING_MODE"]), val |-> s_empty]
  /\ \E i \in DOMAIN file :
       file[i] = [key |-> FieldName["TRADING_MODE"], val |-> s_LIVE]
  /\ first.raw["TRADING_MODE"] = s_empty

\* C5: a lookup returns the profile stored under the key when it is present
\* (binance: sandbox, rate limit 10; coinbase: sandbox, rate limit 5), a
\* distinct not-found outcome for every other identifier, never a default or
\* new profile, and changes no state.
C5_LookupContract ==
  [][(last' # last /\ last'.op = "lookup") =>
       /\ table' = table /\ settings' = settings /\ heap' = heap
       /\ last'.id \in DOMAIN table => last'.result = table[last'.id]
       /\ last'.id \notin DOMAIN table =>
            /\ last'.result = ProfileNotFound
            /\ last'.id \notin DOMAIN table'
       /\ mutations = 0 /\ last'.id = "binance" =>
            /\ last'.result # ProfileNotFound
            /\ last'.result.sandbox = TRUE /\ last'.result.rate_limit = 10
       /\ mutations = 0 /\ last'.id = "coinbase" =>
            /\ last'.result # ProfileNotFound
            /\ last'.result.sandbox = TRUE /\ last'.result.rate_limit = 5
       /\ mutations = 0 /\ last'.id = "kraken" =>
            last'.result = ProfileNotFound]_vars

\* "kraken" was looked up in the table as built and was not found.
C5_Witness ==
  /\ LastIs("lookup") /\ last.id = "kraken" /\ last.result = ProfileNotFound
  /\ mutations = 0 /\ DOMAIN table = {"binance", "coinbase"}

\* C6: consumers read settings only after a load that succeeded entirely;
\* after a failed load nothing is bound, the table is not built and no
\* consumer reads, looks up or logs anything.
C6_NoPartialSettings ==
  /\ pc = "start" => settings = None /\ table = None /\ last = None
  /\ pc = "aborted" =>
       /\ Loaded /\ ~first.ok
       /\ settings = None /\ table = None /\ atStartup = None
       /\ last = None \/ last.op = "load"
  /\ settings # None =>
       /\ pc = "ready" /\ Loaded /\ first.ok
       /\ DOMAIN settings = FieldSet
       /\ atStartup.settings = first.values
  /\ last # None /\ last.op # "load" => pc = "ready" /\ Loaded /\ first.ok

\* A consumer read MAX_POSITION_SIZE from the settings of a successful load.
C6_Witness ==
  /\ LastIs("read") /\ last.field = "MAX_POSITION_SIZE"
  /\ pc = "ready" /\ first.ok

\* C7: after startup every Settings field and every table entry keeps the
\* value it had at the end of startup, whatever callers do.
C7_Immutable ==
  pc = "ready" =>
    /\ Snapshot(settings, heap) = atStartup.settings
    /\ table = atStartup.table

C9_LoadDeterministic ==
  /\ [](LastIs("load") => last.result = first)
  /\ [][env' = env /\ file' = file /\ heap'[1] = heap[1]]_vars

\* A caller appended to the DEFAULT_SYMBOLS list of the loaded settings and
\* then loaded again with success.
C9_Witness ==
  /\ LastIs("load") /\ last.result.ok
  /\ pc = "ready" /\ mutations > 0
  /\ heap[settings["DEFAULT_SYMBOLS"]] # atStartup.settings["DEFAULT_SYMBOLS"]

\* C10: after a successful load LOG_LEVEL, FIREBASE_PROJECT_ID and
\* FIREBASE_CREDENTIALS_PATH are present, and building the logger with the
\* loaded LOG_LEVEL succeeds with one of the standard levels.
C10_LoggerUsable ==
  /\ Loaded /\ first.ok =>
       {"LOG_LEVEL", "FIREBASE_PROJECT_ID", "FIREBASE_CREDENTIALS_PATH"}
         \subseteq DOMAIN first.values
  /\ LastIs("logger") /\ last.given = first.values["LOG_LEVEL"] =>
       last.result.ok /\ last.result.name \in LogLevel

====
